---- MODULE Spec2Model ----
(***************************************************************************)
(* A model of mdlschm: the compiler from a tagged Go model struct to a     *)
(* tfsdk schema (mdlschm.go) and its tag-expression parser.                *)
(*                                                                         *)
(* Go strings that the code takes apart (tag strings, tag values, field    *)
(* names) are sequences of one-character strings, so that splitting,       *)
(* trimming and the regular-expression rewrites are computed character by  *)
(* character.  Go strings that the code only compares as a whole (the      *)
(* reflect type names given to the switch statements) are TLA+ strings.    *)
(***************************************************************************)
EXTENDS Integers, Sequences, FiniteSets, TLC

VARIABLES
    pc,      \* position of the caller: "idle" before the call, "done" after it
    fn,      \* the function the caller invokes
    terms,   \* the pieces the caller's string argument was assembled from
    str,     \* the string argument of splitTagValues / splitTags
    parts,   \* the []string the splitter returned
    mdl,     \* the model value given to New
    ret,     \* what New returned: the schema, or the panic
    apm,     \* the defaultValuePlanModifier Modify is called on
    req,     \* the ModifyAttributePlanRequest given to Modify
    res      \* the ModifyAttributePlanResponse Modify writes to

vars == <<pc, fn, terms, str, parts, mdl, ret, apm, req, res>>

-----------------------------------------------------------------------------
(* Strings *)

\* A Go string literal as a sequence of characters.
S(lit) == [i \in 1..Len(lit) |-> SubSeq(lit, i, i)]

\* strings.HasPrefix
HasPrefix(s, p) == Len(s) >= Len(p) /\ SubSeq(s, 1, Len(p)) = p

\* strings.HasSuffix
HasSuffix(s, p) == Len(s) >= Len(p) /\ SubSeq(s, Len(s) - Len(p) + 1, Len(s)) = p

\* strings.TrimPrefix
TrimPrefix(s, p) == IF HasPrefix(s, p) THEN SubSeq(s, Len(p) + 1, Len(s)) ELSE s

\* strings.TrimSuffix
TrimSuffix(s, p) == IF HasSuffix(s, p) THEN SubSeq(s, 1, Len(s) - Len(p)) ELSE s

\* Whether p occurs in s at index i.
OccursAt(s, p, i) ==
    /\ i + Len(p) - 1 =< Len(s)
    /\ s[i] = p[1]
    /\ SubSeq(s, i, i + Len(p) - 1) = p

Min(set) == CHOOSE x \in set : \A y \in set : x =< y

Max(set) == CHOOSE x \in set : \A y \in set : x >= y

\* strings.Split(s, sep) for a non-empty separator: always at least one element.
RECURSIVE SplitFrom(_, _, _)
SplitFrom(s, sep, from) ==
    LET hits == {i \in from..Len(s) : OccursAt(s, sep, i)}
    IN  IF hits = {}
        THEN <<SubSeq(s, from, Len(s))>>
        ELSE <<SubSeq(s, from, Min(hits) - 1)>> \o SplitFrom(s, sep, Min(hits) + Len(sep))

Split(s, sep) == SplitFrom(s, sep, 1)

\* strings.Replace(s, old, new, -1) for a non-empty old: the non-overlapping
\* occurrences, left to right.
RECURSIVE ReplaceFrom(_, _, _, _)
ReplaceFrom(s, old, new, from) ==
    LET hits == {i \in from..Len(s) : OccursAt(s, old, i)}
    IN  IF hits = {}
        THEN SubSeq(s, from, Len(s))
        ELSE SubSeq(s, from, Min(hits) - 1) \o new
                 \o ReplaceFrom(s, old, new, Min(hits) + Len(old))

Replace(s, old, new) == ReplaceFrom(s, old, new, 1)

\* strings.Join
RECURSIVE Join(_, _)
Join(elems, sep) ==
    IF elems = <<>> THEN <<>>
    ELSE IF Len(elems) = 1 THEN elems[1]
    ELSE elems[1] \o sep \o Join(Tail(elems), sep)

\* The private sentinel both splitters substitute for a protected separator.
Sentinel == S("|||||")

-----------------------------------------------------------------------------
(* The two regular expressions *)

\* re.ReplaceAllString(s, "$1|||||$2") for a pattern  (OPEN[^c]*)SEP([^c]*c) :
\* `open` a literal, c = `close` one character, SEP = `sep` one character.
\* A match starts at the leftmost `open`; nothing between `open` and the end
\* of the match is `close`, so the match ends at the first `close` after
\* `open`; the first group is greedy, so SEP is the last `sep` before that
\* `close`.  Matches do not overlap: the scan resumes after the match.
RECURSIVE reReplaceFrom(_, _, _, _, _)
reReplaceFrom(s, open, close, sep, from) ==
    LET opens == {i \in from..Len(s) : OccursAt(s, open, i)}
        i     == Min(opens)
        ends  == {q \in (i + Len(open))..Len(s) : s[q] = close}
        j     == Min(ends)
        seps  == {k \in (i + Len(open))..(j - 1) : s[k] = sep}
        k     == Max(seps)
    IN  IF opens = {} THEN SubSeq(s, from, Len(s))
        ELSE IF ends = {} \/ seps = {}
        THEN SubSeq(s, from, i) \o reReplaceFrom(s, open, close, sep, i + 1)
        ELSE SubSeq(s, from, k - 1) \o Sentinel \o SubSeq(s, k + 1, j)
                 \o reReplaceFrom(s, open, close, sep, j + 1)

\* (\([^\)]*),([^\)]*\))  ->  $1|||||$2
reTagValues(s) == reReplaceFrom(s, S("("), ")", ",", 1)

\* (:"[^"]*) ([^"]*")  ->  $1|||||$2
reTags(s) == reReplaceFrom(s, S(":\""), "\"", " ", 1)

\* for true { newResult := re.ReplaceAllString(result, ...); if newResult !=
\* result { result = newResult } else { break } }
\* A plausible slip: the loop is left out, one replacement is taken to do.
loopOnce(result) == result

RECURSIVE loopTagValues(_)
RECURSIVE stepTagValues(_, _)
stepTagValues(result, newResult) ==
    IF newResult # result THEN loopTagValues(newResult) ELSE result

loopTagValues(result) == stepTagValues(result, reTagValues(result))

RECURSIVE loopTags(_)
RECURSIVE stepTags(_, _)
stepTags(result, newResult) ==
    IF newResult # result THEN loopTags(newResult) ELSE result

loopTags(result) == stepTags(result, reTags(result))

\* for _, v := range h { p = append(p, strings.Replace(v, "|||||", sep, -1)) }
Unshield(h, sep) == [i \in 1..Len(h) |-> Replace(h[i], Sentinel, sep)]

splitTagValues(s) == Unshield(Split(loopTagValues(reTagValues(s)), S(",")), S(","))

splitTags(s) == Unshield(Split(loopTags(reTags(s)), S(" ")), S(" "))

-----------------------------------------------------------------------------
(* Tag lookup *)

TagComputed            == S("computed")
TagOptional            == S("optional")
TagRequired            == S("required")
TagSensitive           == S("sensitive")
TagDeprecationMessage  == S("deprecation")
TagDescription         == S("desc")
TagMarkdownDescription == S("md")
TagPlanModifiers       == S("pmods")
TagSnakeName           == S("snake")
TagValidators          == S("valid")
TagVersion             == S("version")
TagCollection          == S("collection")
TagCollectionList      == S("list")
TagCollectionSet       == S("set")
TagTrue                == S("true")
TagPlanModifierReplace == S("replace")
TagPlanModifierDefault == S("default")
TagPlanModifierUSFU    == S("usfu")
TagValidatorBetween    == S("between")
TagValidatorOneOf      == S("oneof")
TagValidatorNoneOf     == S("noneof")
SpecialTypeBlock       == "block"

\* The first token key:"value" of allTags that has exactly one colon and the
\* given key gives the value, one quote trimmed from each end; "" otherwise.
Parts(tags) == [i \in 1..Len(tags) |-> Split(tags[i], S(":"))]

\* A plausible slip: a token with more than one colon is taken, not skipped.
tagValueAtLeastTwo(key, split) ==
    LET found == {i \in 1..Len(split) : Len(split[i]) >= 2 /\ split[i][1] = key}
    IN  IF found = {} THEN <<>>
        ELSE TrimPrefix(TrimSuffix(split[Min(found)][2], S("\"")), S("\""))

tagValueIn(key, split) ==
    LET found == {i \in 1..Len(split) : Len(split[i]) = 2 /\ split[i][1] = key}
    IN  IF found = {} THEN <<>>
        ELSE TrimPrefix(TrimSuffix(split[Min(found)][2], S("\"")), S("\""))

tagValue(key, allTags) == tagValueIn(key, Parts(splitTags(allTags)))

hasTagArgIn(needle, h) ==
    \E i \in 1..Len(h) : h[i] = needle \/ HasPrefix(h[i], needle \o S("("))

hasTagArg(needle, haystack) == hasTagArgIn(needle, splitTagValues(haystack))

tagArgsIn(needle, h) ==
    LET found == {i \in 1..Len(h) : HasPrefix(h[i], needle \o S("("))}
    IN  IF found = {} THEN <<>>
        ELSE TrimPrefix(TrimSuffix(h[Min(found)], S(")")), needle \o S("("))

tagArgs(needle, haystack) == tagArgsIn(needle, splitTagValues(haystack))

-----------------------------------------------------------------------------
(* strconv *)

\* The outcome of a call that may fail: a value, or an error (a panic).
Ok(v) == [err |-> FALSE, val |-> v]

Err(msg) == [err |-> TRUE, msg |-> msg]

Digits == S("0123456789")

IsDigits(s) == Len(s) > 0 /\ \A i \in 1..Len(s) : \E d \in 1..10 : Digits[d] = s[i]

DigitVal(c) == (CHOOSE d \in 1..10 : Digits[d] = c) - 1

RECURSIVE Decimal(_)
Decimal(s) == IF s = <<>> THEN 0 ELSE 10 * Decimal(SubSeq(s, 1, Len(s) - 1)) + DigitVal(s[Len(s)])

Unsigned(s) == IF s # <<>> /\ s[1] \in {"+", "-"} THEN Tail(s) ELSE s

Signed(s, n) == IF s # <<>> /\ s[1] = "-" THEN 0 - n ELSE n

\* strconv.ParseInt(s, 10, 64): an optional sign and decimal digits, nothing
\* else (no surrounding space); the values of the model are far from 2^63.
ParseIntIn(s, u) == IF IsDigits(u) THEN Ok(Signed(s, Decimal(u))) ELSE Err("strconv.ParseInt")

ParseInt(s) == ParseIntIn(s, Unsigned(s))

\* strconv.ParseFloat(s, 64) on decimal literals: an optional sign, digits
\* and an optional fraction; anything else the model feeds it (empty, spaces,
\* letters other than inf/nan) is a syntax error.  A float64 is held in
\* tenths: the literals of the model have at most one fractional digit.
ParseDecimal(s, n, ip, fp) ==
    IF /\ n =< 2
       /\ ip = <<>> \/ IsDigits(ip)
       /\ fp = <<>> \/ (IsDigits(fp) /\ Len(fp) = 1)
       /\ ip # <<>> \/ fp # <<>>
    THEN Ok(Signed(s, 10 * Decimal(ip) + Decimal(fp))) ELSE Err("strconv.ParseFloat")

ParseFloatIn(s, p) == ParseDecimal(s, Len(p), p[1], IF Len(p) = 2 THEN p[2] ELSE <<>>)

ParseFloat(s) == ParseFloatIn(s, Split(Unsigned(s), S(".")))

\* strconv.ParseBool
ParseBool(s) ==
    IF s \in {S("1"), S("t"), S("T"), S("TRUE"), S("true"), S("True")} THEN Ok(TRUE)
    ELSE IF s \in {S("0"), S("f"), S("F"), S("FALSE"), S("false"), S("False")} THEN Ok(FALSE)
    ELSE Err("strconv.ParseBool")

\* Go's conversion int(f) / int64(f) of a float64 (held in tenths), which
\* truncates toward zero.
Trunc(f) == IF f >= 0 THEN f \div 10 ELSE 0 - ((0 - f) \div 10)

-----------------------------------------------------------------------------
(* Plan modifiers and validators *)

\* The reflect type names the switch statements tell apart.
BoolNames    == {"types.Bool", "bool"}
Float64Names == {"types.Float64", "float", "float64"}
Int64Names   == {"types.Int64", "int64", "int"}
NumberNames  == {"types.Number"}
StringNames  == {"types.String", "string"}
SliceNames   ==
    { "[]types.Bool", "[]bool", "[]types.Float64", "[]float", "[]float64",
      "[]types.Int64", "[]int64", "[]int", "[]types.Number", "[]types.String", "[]string" }

\* An attr.Value as Modify sees it: null, unknown, or known with a value.
Null == [state |-> "null", value |-> 0]

Unknown == [state |-> "unknown", value |-> 0]

Known(v) == [state |-> "known", value |-> v]

IsNull(v) == v.state = "null"

IsUnknown(v) == v.state = "unknown"

\* A plausible slip: a null plan is taken as set by an earlier modifier.
ModifyUnknownOnly(m, rq, rs) ==
    IF ~IsNull(rq.AttributeConfig) THEN rs
    ELSE IF ~IsUnknown(rq.AttributePlan) THEN rs
    ELSE [rs EXCEPT !.AttributePlan = m.DefaultValue]

\* defaultValuePlanModifier.Modify: the response it leaves.
Modify(m, rq, rs) ==
    IF ~IsNull(rq.AttributeConfig) THEN rs
    ELSE IF ~IsUnknown(rq.AttributePlan) /\ ~IsNull(rq.AttributePlan) THEN rs
    ELSE [rs EXCEPT !.AttributePlan = m.DefaultValue]

\* DefaultValue(v): the modifier holds the attr.Value, its type and its value.
DefaultValue(type, value) == [m |-> "DefaultValue", type |-> type, value |-> value]

\* The default(...) branch of pMods: the modifiers it appends to pm.
\* if err != nil { panic(...) }; pm = append(pm, DefaultValue(types.X{Value: v}))
appendDefault(pm, type, parsed, msg) ==
    IF parsed.err THEN Err(msg) ELSE Ok(Append(pm, DefaultValue(type, parsed.val)))

pModsDefault(pm, dv, attrType) ==
    IF attrType \in BoolNames
    THEN appendDefault(pm, "types.Bool", ParseBool(dv), "default value is not a bool")
    ELSE IF attrType \in Float64Names
    THEN appendDefault(pm, "types.Float64", ParseFloat(dv), "default value is not a number")
    ELSE IF attrType \in {"types.Int64", "int64"}
    THEN appendDefault(pm, "types.Int64", ParseInt(dv), "default value is not a number")
    ELSE IF attrType \in {"types.Number", "int"}
    THEN appendDefault(pm, "types.Number", ParseFloat(dv), "default value is not a number")
    ELSE IF attrType \in StringNames
    THEN Ok(Append(pm, DefaultValue("types.String", dv)))
    ELSE Ok(pm)

\* A plausible slip: the usfu test is placed before the replace test.
pModsUsfuFirst(tagV, attrType) ==
    IF hasTagArg(TagPlanModifierDefault, tagV)
    THEN pModsDefault(
             (IF hasTagArg(TagPlanModifierUSFU, tagV)
              THEN <<[m |-> "UseStateForUnknown"]>> ELSE <<>>)
             \o (IF hasTagArg(TagPlanModifierReplace, tagV)
                 THEN <<[m |-> "RequiresReplace"]>> ELSE <<>>),
             tagArgs(TagPlanModifierDefault, tagV), attrType)
    ELSE Ok((IF hasTagArg(TagPlanModifierUSFU, tagV)
             THEN <<[m |-> "UseStateForUnknown"]>> ELSE <<>>)
            \o (IF hasTagArg(TagPlanModifierReplace, tagV)
                THEN <<[m |-> "RequiresReplace"]>> ELSE <<>>))

\* The terms of the tag are h; the three ifs of pMods, in their order.
pModsIn(h, attrType, replace, usfu) ==
    IF hasTagArgIn(TagPlanModifierDefault, h)
    THEN pModsDefault(replace \o usfu, tagArgsIn(TagPlanModifierDefault, h), attrType)
    ELSE Ok(replace \o usfu)

pModsOf(h, attrType) ==
    pModsIn(h, attrType,
            IF hasTagArgIn(TagPlanModifierReplace, h) THEN <<[m |-> "RequiresReplace"]>> ELSE <<>>,
            IF hasTagArgIn(TagPlanModifierUSFU, h) THEN <<[m |-> "UseStateForUnknown"]>> ELSE <<>>)

pMods(tagV, attrType) == pModsOf(splitTagValues(tagV), attrType)

\* Every element of a sequence of parse results, or the first error.
AllOk(rs) == \A i \in 1..Len(rs) : ~rs[i].err

Vals(rs) == [i \in 1..Len(rs) |-> rs[i].val]

SizeBetween(pkg, min, max) == [pkg |-> pkg, fn |-> "SizeBetween", min |-> min, max |-> max]

SizeAtLeast(pkg, min) == [pkg |-> pkg, fn |-> "SizeAtLeast", min |-> min]

\* The switch of betweenValidator: the validator (a pointer: <<v>>, or <<>>
\* for nil) for the parsed bounds.
betweenSwitch(attrType, tags, lo, hi) ==
    IF attrType \in SliceNames \/ attrType = SpecialTypeBlock
    THEN IF tagValue(TagCollection, tags) = TagCollectionSet
         THEN <<SizeBetween("setvalidator", Trunc(lo), Trunc(hi))>>
         ELSE <<SizeBetween("listvalidator", Trunc(lo), Trunc(hi))>>
    ELSE IF attrType = "types.ListType"
    THEN <<SizeBetween("listvalidator", Trunc(lo), Trunc(hi))>>
    ELSE IF attrType = "types.SetType"
    THEN <<SizeBetween("setvalidator", Trunc(lo), Trunc(hi))>>
    ELSE IF attrType \in StringNames
    THEN <<[pkg |-> "stringvalidator", fn |-> "LengthBetween",
            min |-> Trunc(lo), max |-> Trunc(hi)]>>
    ELSE IF attrType \in Float64Names \cup NumberNames
    THEN <<[pkg |-> "float64validator", fn |-> "Between", min |-> lo, max |-> hi]>>
    ELSE IF attrType \in Int64Names
    THEN <<[pkg |-> "int64validator", fn |-> "Between",
            min |-> Trunc(lo), max |-> Trunc(hi)]>>
    ELSE <<>>

\* for _, a := range args { n, err := strconv.ParseFloat(a, 64); ... }
Floats(args) == [i \in 1..Len(args) |-> ParseFloat(args[i])]

Ints(args) == [i \in 1..Len(args) |-> ParseInt(args[i])]

\* The length test, the parse loop and the switch of betweenValidator.
betweenOf(attrType, tags, n, nums) ==
    IF n # 2 THEN Err("between requires 2 numeric args, got another number")
    ELSE IF ~AllOk(nums) THEN Err("between requires 2 numeric args")
    ELSE Ok(betweenSwitch(attrType, tags, nums[1].val, nums[2].val))

betweenArgs(attrType, tags, args) == betweenOf(attrType, tags, Len(args), Floats(args))

\* A plausible slip: the collection tag is not consulted.
betweenValidatorListOnly(betweenValue, attrType, tags) ==
    betweenArgs(attrType, <<>>, Split(tagArgs(TagValidatorBetween, betweenValue), S(",")))

\* The validator (a pointer) or the panic.
betweenValidator(betweenValue, attrType, tags) ==
    betweenArgs(attrType, tags, Split(tagArgs(TagValidatorBetween, betweenValue), S(",")))

\* oneOfValidator and noneOfValidator differ in the tag term and in the
\* validator they build: which == "OneOf" or "NoneOf".
membersOf(which, pkg, nums) ==
    IF ~AllOk(nums) THEN Err("requires numeric args")
    ELSE Ok(<<[pkg |-> pkg, fn |-> which, values |-> Vals(nums)]>>)

memberSwitch(which, attrType, args) ==
    IF attrType \in Float64Names THEN membersOf(which, "float64validator", Floats(args))
    ELSE IF attrType \in Int64Names THEN membersOf(which, "int64validator", Ints(args))
    ELSE IF attrType \in NumberNames THEN membersOf(which, "numbervalidator", Floats(args))
    ELSE IF attrType \in StringNames
    THEN Ok(<<[pkg |-> "stringvalidator", fn |-> which, values |-> args]>>)
    ELSE Ok(<<>>)

memberValidator(which, needle, tagV, attrType) ==
    memberSwitch(which, attrType, Split(tagArgs(needle, tagV), S(",")))

oneOfValidator(oneOfValue, attrType, tags) ==
    memberValidator("OneOf", TagValidatorOneOf, oneOfValue, attrType)

noneOfValidator(noneOfValue, attrType, tags) ==
    memberValidator("NoneOf", TagValidatorNoneOf, noneOfValue, attrType)

\* A plausible slip: a sequence of records gets SizeAtLeast(min) also for min = 0.
sizeRuleAlways(pkg, fromSlice, min) ==
    IF fromSlice THEN <<SizeAtLeast(pkg, min)>> ELSE <<SizeBetween(pkg, min, 1)>>

\* The two ifs the code repeats for each family.
sizeRule(pkg, fromSlice, min) ==
    (IF fromSlice /\ min > 0 THEN <<SizeAtLeast(pkg, min)>> ELSE <<>>)
    \o (IF ~fromSlice THEN <<SizeBetween(pkg, min, 1)>> ELSE <<>>)

\* A plausible slip: optional:"true" lowers the minimum.
implicitSizeOptional(fromSlice, tags) ==
    sizeRule(IF tagValue(TagCollection, tags) = TagCollectionSet
             THEN "setvalidator" ELSE "listvalidator",
             fromSlice,
             IF tagValue(TagRequired, tags) = TagTrue /\ tagValue(TagOptional, tags) # TagTrue
             THEN 1 ELSE 0)

\* magic defaults and shortcuts: the size validators a block gets when its
\* valid tag has no between term.
sizeRules(fromSlice, collection, min) ==
    (IF collection = TagCollectionSet THEN sizeRule("setvalidator", fromSlice, min) ELSE <<>>)
    \o (IF collection # TagCollectionSet THEN sizeRule("listvalidator", fromSlice, min) ELSE <<>>)

implicitSize(fromSlice, tags) ==
    sizeRules(fromSlice, tagValue(TagCollection, tags),
              IF tagValue(TagRequired, tags) = TagTrue THEN 1 ELSE 0)

\* A plausible slip: the oneof validator is appended first.
collectOneFirst(btw, impl, one, none) ==
    IF btw.err THEN btw
    ELSE IF one.err THEN one
    ELSE IF none.err THEN none
    ELSE Ok(one.val \o btw.val \o impl \o none.val)

\* vals as the four rules leave it: the results of between, of the implicit
\* size rule, of oneof and of noneof appended in this order, or the panic of
\* the first rule that panics.
collect(btw, impl, one, none) ==
    IF btw.err THEN btw
    ELSE IF one.err THEN one
    ELSE IF none.err THEN none
    ELSE Ok(btw.val \o impl \o one.val \o none.val)

\* A plausible slip: the implicit size rule is not switched off by between.
validatorsBoth(tagV, attrType, fromSlice, tags) ==
    collect(IF hasTagArg(TagValidatorBetween, tagV)
            THEN betweenValidator(tagV, attrType, tags) ELSE Ok(<<>>),
            IF attrType = SpecialTypeBlock THEN implicitSize(fromSlice, tags) ELSE <<>>,
            IF hasTagArg(TagValidatorOneOf, tagV)
            THEN oneOfValidator(tagV, attrType, tags) ELSE Ok(<<>>),
            IF hasTagArg(TagValidatorNoneOf, tagV)
            THEN noneOfValidator(tagV, attrType, tags) ELSE Ok(<<>>))

\* The validators, in the order the code appends them (a nil slice is <<>>),
\* or the panic of the first rule that panics.
validators(tagV, attrType, fromSlice, tags) ==
    collect(IF hasTagArg(TagValidatorBetween, tagV)
            THEN betweenValidator(tagV, attrType, tags) ELSE Ok(<<>>),
            IF ~hasTagArg(TagValidatorBetween, tagV) /\ attrType = SpecialTypeBlock
            THEN implicitSize(fromSlice, tags) ELSE <<>>,
            IF hasTagArg(TagValidatorOneOf, tagV)
            THEN oneOfValidator(tagV, attrType, tags) ELSE Ok(<<>>),
            IF hasTagArg(TagValidatorNoneOf, tagV)
            THEN noneOfValidator(tagV, attrType, tags) ELSE Ok(<<>>))

-----------------------------------------------------------------------------
(* Names *)

Upper == S("ABCDEFGHIJKLMNOPQRSTUVWXYZ")

Lower == S("abcdefghijklmnopqrstuvwxyz")

IsUpper(c) == \E i \in 1..26 : Upper[i] = c

IsLower(c) == \E i \in 1..26 : Lower[i] = c

\* strings.ToLower
ToLower(s) ==
    [i \in 1..Len(s) |-> IF IsUpper(s[i]) THEN Lower[CHOOSE k \in 1..26 : Upper[k] = s[i]] ELSE s[i]]

\* s with an underscore put before every character whose index is in at.
Underscored(s, at) ==
    LET pos(i) == i + Cardinality({j \in at : j =< i})
        n      == Len(s) + Cardinality(at)
    IN  [k \in 1..n |-> IF \E i \in 1..Len(s) : pos(i) = k
                        THEN s[CHOOSE i \in 1..Len(s) : pos(i) = k] ELSE "_"]

\* ([a-z])([A-Z]{2,}) -> ${1}_${2} : an underscore before every run of two or
\* more capitals that follows a small letter.
reAcronym(s) ==
    Underscored(s, {i \in 2..(Len(s) - 1) : IsLower(s[i - 1]) /\ IsUpper(s[i]) /\ IsUpper(s[i + 1])})

\* ([A-Z][a-z]) -> _$1 : an underscore before every capital that a small
\* letter follows.
reWord(s) ==
    Underscored(s, {i \in 1..(Len(s) - 1) : IsUpper(s[i]) /\ IsLower(s[i + 1])})

snakeOr(snakeName, camel) ==
    IF snakeName # <<>> THEN snakeName
    ELSE TrimPrefix(ToLower(reWord(reAcronym(Replace(camel, S("IDs"), S("Ids"))))), S("_"))

snakeCase(camel, allTags) == snakeOr(tagValue(TagSnakeName, allTags), camel)

-----------------------------------------------------------------------------
(* Go values, as reflect sees them *)

MapNames ==
    { "map[string]types.Bool", "map[string]bool", "map[string]types.Float64",
      "map[string]float", "map[string]float64", "map[string]types.Int64",
      "map[string]int64", "map[string]int", "map[string]types.Number",
      "map[string]types.String", "map[string]string" }

\* The reflect.Kind of the types the model knows by name: Go's scalars, slices
\* and maps, and the struct types of the framework (types.String, ...).
KindOf(name) ==
    IF name \in {"bool", "int", "int64", "float64", "string"} THEN name
    ELSE IF name \in SliceNames \cup {"[]map[string]string", "[][]string"} THEN "slice"
    ELSE IF name \in MapNames \cup {"map[int]string"} THEN "map"
    ELSE IF name \in {"*string", "chan int"} THEN "ptr"
    ELSE "struct"

\* A value of a type known by name: a scalar, a types.* value, a map or a
\* slice of them.
Named(name) == [Kind |-> KindOf(name), String |-> name]

\* A value of an anonymous struct type with the given fields.
Struct(fields) == [Kind |-> "struct", String |-> "struct {...}", Fields |-> fields]

\* A slice whose elements have the type of elem.
SliceOf(elem) == [Kind |-> "slice", String |-> "[]" \o elem.String, Elem |-> elem]

Field(name, type, tag) == [Name |-> name, Type |-> type, Tag |-> tag]

\* reflect.StructField.IsExported
IsExported(f) == IsUpper(f.Name[1])

-----------------------------------------------------------------------------
(* Attributes and blocks *)

ScalarType(t) == [T |-> t]

CollType(coll, elem) == [T |-> coll, ElemType |-> ScalarType(elem)]

\* tfsdk.Attribute{} with its Type set.
Attribute(type) ==
    [ Type |-> type, Required |-> FALSE, Optional |-> FALSE, Computed |-> FALSE,
      Sensitive |-> FALSE, Description |-> <<>>, MarkdownDescription |-> <<>>,
      DeprecationMessage |-> <<>>, Validators |-> <<>>, PlanModifiers |-> <<>> ]

\* The element type named by a scalar, map or slice type name.
ElemOf(name) ==
    IF name \in {"types.Bool", "bool", "map[string]types.Bool", "map[string]bool",
                 "[]types.Bool", "[]bool"} THEN "types.BoolType"
    ELSE IF name \in {"types.Float64", "float", "float64", "map[string]types.Float64",
                      "map[string]float", "map[string]float64",
                      "[]types.Float64", "[]float", "[]float64"} THEN "types.Float64Type"
    ELSE IF name \in {"types.Int64", "int64", "int", "map[string]types.Int64",
                      "map[string]int64", "map[string]int",
                      "[]types.Int64", "[]int64", "[]int"} THEN "types.Int64Type"
    ELSE IF name \in {"types.Number", "map[string]types.Number", "[]types.Number"}
    THEN "types.NumberType"
    ELSE "types.StringType"

ScalarNames == BoolNames \cup Float64Names \cup Int64Names \cup NumberNames \cup StringNames

\* A plausible slip: a sequence is a List only when the tag says list.
leafOfSetUnlessList(name, elem, tags) ==
    IF name \in ScalarNames THEN <<Attribute(ScalarType(elem))>>
    ELSE IF name \in MapNames THEN <<Attribute(CollType("types.MapType", elem))>>
    ELSE IF name \in SliceNames
    THEN IF tagValue(TagCollection, tags) \in {<<>>, S("list")}
         THEN <<Attribute(CollType("types.ListType", elem))>>
         ELSE <<Attribute(CollType("types.SetType", elem))>>
    ELSE <<>>

\* The attribute of a leaf type (a pointer: <<a>>), or nil (<<>>).
leafOf(name, elem, tags) ==
    IF name \in ScalarNames THEN <<Attribute(ScalarType(elem))>>
    ELSE IF name \in MapNames THEN <<Attribute(CollType("types.MapType", elem))>>
    ELSE IF name \in SliceNames
    THEN IF tagValue(TagCollection, tags) = TagCollectionSet
         THEN <<Attribute(CollType("types.SetType", elem))>>
         ELSE <<Attribute(CollType("types.ListType", elem))>>
    ELSE <<>>

leaf(name, tags) == leafOf(name, ElemOf(name), tags)

\* A plausible slip: the default is taken unless one of the tags is "true".
defaultsToOptionalUnlessTrue(tags) ==
    /\ tagValue(TagComputed, tags) # TagTrue
    /\ tagValue(TagOptional, tags) # TagTrue
    /\ tagValue(TagRequired, tags) # TagTrue

\* default if computed, nor optional, nor required is set
defaultsToOptional(tags) ==
    /\ tagValue(TagComputed, tags) = <<>>
    /\ tagValue(TagOptional, tags) = <<>>
    /\ tagValue(TagRequired, tags) = <<>>

\* The fields addAttrOptions sets from the values of the tags in split, or
\* the panic of pMods or validators.
attrOptions(a, pm, vs, computed, optional, required, default, split) ==
    IF pm.err THEN pm
    ELSE IF vs.err THEN vs
    ELSE Ok([a EXCEPT
             !.Computed = (computed = TagTrue),
             !.Optional = (optional = TagTrue) \/ default,
             !.Required = (required = TagTrue),
             !.Sensitive = (tagValueIn(TagSensitive, split) = TagTrue),
             !.DeprecationMessage = tagValueIn(TagDeprecationMessage, split),
             !.Description = tagValueIn(TagDescription, split),
             !.MarkdownDescription = tagValueIn(TagMarkdownDescription, split),
             !.PlanModifiers = pm.val,
             !.Validators = vs.val])

attrOptionsOf(a, tags, attrType, pmv, vv, split) ==
    attrOptions(a,
                IF pmv # <<>> THEN pMods(pmv, attrType) ELSE Ok(<<>>),
                IF vv # <<>> THEN validators(vv, attrType, FALSE, tags) ELSE Ok(<<>>),
                tagValueIn(TagComputed, split), tagValueIn(TagOptional, split),
                tagValueIn(TagRequired, split), defaultsToOptional(tags), split)

addAttrOptionsIn(a, tags, attrType, split) ==
    attrOptionsOf(a, tags, attrType, tagValueIn(TagPlanModifiers, split),
                  tagValueIn(TagValidators, split), split)

addAttrOptions(a, tags, attrType) == addAttrOptionsIn(a, tags, attrType, Parts(splitTags(tags)))

\* The fields of tfsdk.Block{} that blockNest and addBlockOptions set.
\* A plausible slip: the nesting mode is left at List.
blockOptionsListMode(blocks, attrs, pm, vs, split) ==
    IF pm.err THEN pm
    ELSE IF vs.err THEN vs
    ELSE Ok([ NestingMode |-> "BlockNestingModeList",
              Blocks |-> blocks, Attributes |-> attrs,
              DeprecationMessage |-> tagValueIn(TagDeprecationMessage, split),
              Description |-> tagValueIn(TagDescription, split),
              MarkdownDescription |-> tagValueIn(TagMarkdownDescription, split),
              PlanModifiers |-> pm.val, Validators |-> vs.val ])

blockOptions(blocks, attrs, pm, vs, split) ==
    IF pm.err THEN pm
    ELSE IF vs.err THEN vs
    ELSE Ok([ NestingMode |-> IF tagValueIn(TagCollection, split) = TagCollectionSet
                              THEN "BlockNestingModeSet" ELSE "BlockNestingModeList",
              Blocks |-> blocks, Attributes |-> attrs,
              DeprecationMessage |-> tagValueIn(TagDeprecationMessage, split),
              Description |-> tagValueIn(TagDescription, split),
              MarkdownDescription |-> tagValueIn(TagMarkdownDescription, split),
              PlanModifiers |-> pm.val, Validators |-> vs.val ])

blockOptionsOf(blocks, attrs, slice, tags, pmv, split) ==
    blockOptions(blocks, attrs,
                 IF pmv # <<>> THEN pMods(pmv, SpecialTypeBlock) ELSE Ok(<<>>),
                 validators(tagValueIn(TagValidators, split), SpecialTypeBlock, slice, tags),
                 split)

addBlockOptionsIn(blocks, attrs, slice, tags, split) ==
    blockOptionsOf(blocks, attrs, slice, tags, tagValueIn(TagPlanModifiers, split), split)

\* tfsdk.Block{} with its maps and nesting mode set, then addBlockOptions.
addBlockOptions(blocks, attrs, slice, tags) ==
    addBlockOptionsIn(blocks, attrs, slice, tags, Parts(splitTags(tags)))

-----------------------------------------------------------------------------
(* The walker *)

\* m[k] = v on a Go map: a later assignment under the same key wins.
Put(m, k, v) == [x \in DOMAIN m \cup {k} |-> IF x = k THEN v ELSE m[x]]

\* A nest: each of schema, block and attribute is a pointer (<<>> is nil).
Nest(schema, block, attribute) ==
    [err |-> FALSE, schema |-> schema, block |-> block, attribute |-> attribute]

Schema(blocks, attrs) ==
    [ Blocks |-> blocks, Attributes |-> attrs, Version |-> 0, Description |-> <<>>,
      MarkdownDescription |-> <<>>, DeprecationMessage |-> <<>> ]

schemaNest(blocks, attrs) == Nest(<<Schema(blocks, attrs)>>, <<>>, <<>>)

blockOf(b) == IF b.err THEN b ELSE Nest(<<>>, <<b.val>>, <<>>)

blockNest(blocks, attrs, slice, tags) == blockOf(addBlockOptions(blocks, attrs, slice, tags))

RECURSIVE rAttribute(_, _, _, _)
RECURSIVE rFields(_, _, _, _, _)
RECURSIVE rField(_, _, _, _, _, _, _)

\* The body of the loop for the exported field i: its wire name s and its
\* nest n.
rField(fields, i, attrs, blocks, level, s, n) ==
    IF n.err THEN n
    ELSE rFields(fields, i + 1,
                 IF n.attribute # <<>> THEN Put(attrs, s, n.attribute[1]) ELSE attrs,
                 IF n.block # <<>> THEN Put(blocks, s, n.block[1]) ELSE blocks,
                 level)

\* The loop of rAttribute over the fields i.. of a struct: the two maps, or
\* the panic of the first field that panics.
rFields(fields, i, attrs, blocks, level) ==
    IF i > Len(fields) THEN Ok([attrs |-> attrs, blocks |-> blocks])
    ELSE IF ~IsExported(fields[i]) THEN rFields(fields, i + 1, attrs, blocks, level)
    ELSE rField(fields, i, attrs, blocks, level,
                snakeCase(fields[i].Name, fields[i].Tag),
                rAttribute(fields[i].Type, fields[i].Tag, FALSE, level + 1))

attributeOf(a) == IF a.err THEN a ELSE Nest(<<>>, <<>>, <<a.val>>)

\* A plausible slip: every nested record is taken as slice-derived.
structOfAlwaysSlice(r, tags, fromSlice, level) ==
    IF r.err THEN r
    ELSE IF level = 0 THEN schemaNest(r.val.blocks, r.val.attrs)
    ELSE blockNest(r.val.blocks, r.val.attrs, TRUE, tags)

\* The end of the struct case: r is what the loop over the fields left.
structOf(r, tags, fromSlice, level) ==
    IF r.err THEN r
    ELSE IF level = 0 THEN schemaNest(r.val.blocks, r.val.attrs)
    ELSE blockNest(r.val.blocks, r.val.attrs, fromSlice, tags)

\* A plausible slip: a value of a type with no case is left out, not refused.
rAttributeOfSkip(model, tags, fromSlice, level, l) ==
    IF l # <<>> THEN attributeOf(addAttrOptions(l[1], tags, model.String))
    ELSE IF model.Kind = "struct"
    THEN structOf(rFields(model.Fields, 1, <<>>, <<>>, level), tags, fromSlice, level)
    ELSE IF model.Kind = "slice" /\ model.Elem.Kind = "struct"
    THEN rAttribute(model.Elem, tags, TRUE, level + 1)
    ELSE Nest(<<>>, <<>>, <<>>)

\* rAttribute, l being leaf(model, tags).
rAttributeOf(model, tags, fromSlice, level, l) ==
    IF l # <<>> THEN attributeOf(addAttrOptions(l[1], tags, model.String))
    ELSE IF model.Kind = "struct"
    THEN structOf(rFields(model.Fields, 1, <<>>, <<>>, level), tags, fromSlice, level)
    ELSE IF model.Kind = "slice"
    THEN IF model.Elem.Kind # "struct" THEN Err("unrecognized slice type")
         ELSE rAttribute(model.Elem, tags, TRUE, level + 1)
    ELSE IF model.Kind = "map" THEN Err("only maps with string keys are supported")
    ELSE Err("got unrecognized type")

rAttribute(model, tags, fromSlice, level) ==
    rAttributeOf(model, tags, fromSlice, level, leaf(model.String, tags))

versionOf(schm, split, v, vi) ==
    IF v # <<>> /\ vi.err THEN Err("version must be an int")
    ELSE Ok([schm EXCEPT
             !.Version = IF v # <<>> THEN vi.val ELSE @,
             !.DeprecationMessage = tagValueIn(TagDeprecationMessage, split),
             !.Description = tagValueIn(TagDescription, split),
             !.MarkdownDescription = tagValueIn(TagMarkdownDescription, split)])

versionIn(schm, split, v) == versionOf(schm, split, v, ParseInt(v))

schemaLevelOptions(schm, tags) ==
    versionIn(schm, Parts(splitTags(tags)), tagValue(TagVersion, tags))

\* A plausible slip: the schema-level tags are read from the first field,
\* whatever it is.
schemaOfFirstField(m, n) ==
    IF n.err THEN n
    ELSE IF n.schema = <<>> THEN Err("no schema achieved")
    ELSE IF m.Fields = <<>> THEN Ok(n.schema[1])
    ELSE schemaLevelOptions(n.schema[1], m.Fields[1].Tag)

\* The end of New: n is the nest of the model.
schemaOf(m, n) ==
    IF n.err THEN n
    ELSE IF n.schema = <<>> THEN Err("no schema achieved")
    ELSE LET marks == {i \in 1..Len(m.Fields) :
                          /\ ~IsExported(m.Fields[i])
                          /\ m.Fields[i].Name = S("_")
                          /\ m.Fields[i].Type.Kind = "struct"}
         IN  IF marks = {} THEN Ok(n.schema[1])
             ELSE schemaLevelOptions(n.schema[1], m.Fields[Min(marks)].Tag)

\* New: the schema, or the panic.
New(m) ==
    IF m.Kind # "struct" THEN Err("internal error (expected struct)")
    ELSE schemaOf(m, rAttribute(m, <<>>, FALSE, 0))

-----------------------------------------------------------------------------
\* The strings the splitters are called on.

MaxTerms == 3

\* Terms of a tag value: bare names and name(args) without inner parentheses.
TermPool ==
    { S("fred"), S("any(5)"), S("toast(1,8)"), S("between(3,32)"),
      S("arbitrary(5,2,3,1)"), S("f()"), S("g(,)"), S("h(a|,b)") }

\* Tokens of a tag string: key:"value".
TokenPool ==
    { S("tfsdk:\"name\""), S("required:\"true\""),
      S("md:\"This is a description with spaces\""),
      S("valid:\"between( 3, 32 )\""), S("desc:\"\""), S("desc:\"Note:\""),
      S("desc:\"a | b\"") }

\* The value of TestSplitTagValues/Test3, term by term.
TestTerms ==
    { <<S("fred"), S("any(5)"), S("toast(1,8)"), S("between(3,32)"),
        S("arbitrary(5,2,3,1)")>> }

SeqsUpTo(pool, n) == UNION {[1..m -> pool] : m \in 1..n}

SplitInit ==
    /\ pc = "idle"
    /\ fn \in {"splitTagValues", "splitTags"}
    /\ terms \in IF fn = "splitTagValues"
                THEN SeqsUpTo(TermPool, MaxTerms) \cup TestTerms
                ELSE SeqsUpTo(TokenPool, MaxTerms)
    /\ str = Join(terms, IF fn = "splitTagValues" THEN S(",") ELSE S(" "))
    /\ parts = <<>>
    /\ mdl = <<>>
    /\ ret = <<>>
    /\ apm = <<>> /\ req = <<>> /\ res = <<>>

CallSplitTagValues ==
    /\ pc = "idle" /\ fn = "splitTagValues"
    /\ parts' = splitTagValues(str)
    /\ pc' = "done"
    /\ UNCHANGED <<fn, terms, str, mdl, ret, apm, req, res>>

CallSplitTags ==
    /\ pc = "idle" /\ fn = "splitTags"
    /\ parts' = splitTags(str)
    /\ pc' = "done"
    /\ UNCHANGED <<fn, terms, str, mdl, ret, apm, req, res>>

SplitNext == CallSplitTagValues \/ CallSplitTags

SplitSpec == SplitInit /\ [][SplitNext]_vars

-----------------------------------------------------------------------------
\* The splitters statement by statement: the replacement before the loop,
\* the passes of the loop, the split and the restoration.

\* The separator of the splitter f, and its regular expression.
SepOf(f) == IF f = "splitTagValues" THEN S(",") ELSE S(" ")

ReOf(f, s) == IF f = "splitTagValues" THEN reTagValues(s) ELSE reTags(s)

\* A plausible slip: the loop is left after its first pass, changed or not.
passOnce(result, newResult, iters) ==
    [result |-> newResult, iters |-> iters + 1, break |-> TRUE]

\* One pass of the loop: newResult := re.ReplaceAllString(result, ...); if
\* newResult != result { result = newResult } else { break }.
pass(result, newResult, iters) ==
    [ result |-> IF newResult # result THEN newResult ELSE result,
      iters |-> iters + 1, break |-> newResult = result ]

\* result := re.ReplaceAllString(s, "$1|||||$2")
EnterLoop ==
    /\ pc = "idle" /\ fn \in {"splitTagValues", "splitTags"}
    /\ ret' = [result |-> ReOf(fn, str), iters |-> 0, break |-> FALSE]
    /\ pc' = "loop"
    /\ UNCHANGED <<fn, terms, str, parts, mdl, apm, req, res>>

Iterate ==
    /\ pc = "loop"
    /\ ret' = pass(ret.result, ReOf(fn, ret.result), ret.iters)
    /\ pc' = IF ret'.break THEN "split" ELSE "loop"
    /\ UNCHANGED <<fn, terms, str, parts, mdl, apm, req, res>>

\* h := strings.Split(result, sep) and the restoring loop over h.
SplitRestore ==
    /\ pc = "split"
    /\ parts' = Unshield(Split(ret.result, SepOf(fn)), SepOf(fn))
    /\ pc' = "done"
    /\ UNCHANGED <<fn, terms, str, mdl, ret, apm, req, res>>

LoopNext == EnterLoop \/ Iterate \/ SplitRestore

\* The caller runs the function to its end.
LoopSpec == SplitInit /\ [][LoopNext]_vars /\ WF_vars(LoopNext)

-----------------------------------------------------------------------------
\* The tag strings and keys tagValue is called on.

\* Tokens key:"value": plain values, a value with a space, an empty value,
\* values with a colon inside and at the end.
TagTokenPool ==
    { S("desc:\"plain\""), S("required:\"true\""), S("md:\"a b\""), S("desc:\"\""),
      S("desc:\"Note: x\""), S("md:\"Note:\"") }

KeyPool == {TagDescription, TagRequired, TagMarkdownDescription, TagValidators}

TagInit ==
    /\ pc = "idle"
    /\ fn = "tagValue"
    /\ terms \in SeqsUpTo(TagTokenPool, MaxTerms)
    /\ str = Join(terms, S(" "))
    /\ parts = <<>>
    /\ mdl = <<>>
    /\ ret = <<>>
    /\ apm = <<>> /\ req = <<>> /\ res = <<>>

\* tagValue(key, allTags) for one of the keys.
CallTagValue ==
    /\ pc = "idle" /\ fn = "tagValue"
    /\ \E key \in KeyPool : ret' = [key |-> key, val |-> tagValue(key, str)]
    /\ pc' = "done"
    /\ UNCHANGED <<fn, terms, str, parts, mdl, apm, req, res>>

TagNext == CallTagValue

TagSpec == TagInit /\ [][TagNext]_vars

-----------------------------------------------------------------------------
\* The identifiers snakeCase is called on: words joined without a separator.

\* Capitalized words and acronyms, those of TestSnakeCase among them.
WordPool == { S("Super"), S("Case"), S("Name"), S("Dst"), S("VPC"), S("API") }

\* The plural marker that may end an identifier.
PluralIDs == S("IDs")

IsAcronym(w) == \A i \in 1..Len(w) : IsUpper(w[i])

\* The word sequences of an identifier: no two acronyms side by side, the
\* plural marker in the last place only.
WordSeqs ==
    { ws \in SeqsUpTo(WordPool \cup {PluralIDs}, MaxTerms) :
        /\ \A i \in 1..(Len(ws) - 1) :
               ws[i] # PluralIDs /\ ~(IsAcronym(ws[i]) /\ IsAcronym(ws[i + 1]))
        /\ ws[1] # PluralIDs }

NameInit ==
    /\ pc = "idle"
    /\ fn = "snakeCase"
    /\ terms \in WordSeqs
    /\ str = Join(terms, <<>>)
    /\ parts = <<>>
    /\ mdl = <<>>
    /\ ret = <<>>
    /\ apm = <<>> /\ req = <<>> /\ res = <<>>

\* snakeCase(test.camel, "")
CallSnakeCase ==
    /\ pc = "idle" /\ fn = "snakeCase"
    /\ ret' = snakeCase(str, <<>>)
    /\ pc' = "done"
    /\ UNCHANGED <<fn, terms, str, parts, mdl, apm, req, res>>

NameNext == CallSnakeCase

NameSpec == NameInit /\ [][NameNext]_vars

-----------------------------------------------------------------------------
\* The models New is called on.

MaxDepth == 2

\* A tag string: the non-empty ones of the given key:"value" tokens, a space
\* between two.
TagOf(tokens) == Join(SelectSeq(tokens, LAMBDA x : x # <<>>), S(" "))

ReqTokens  == {<<>>, S("required:\"true\""), S("required:\"false\"")}

OptTokens  == {<<>>, S("optional:\"true\"")}

CompTokens == {<<>>, S("computed:\"true\"")}

CollTokens == {<<>>, S("collection:\"set\""), S("collection:\"list\"")}

ValidTokens ==
    { <<>>, S("valid:\"between(1,3)\""), S("valid:\"between( 1, 3 )\""),
      S("valid:\"oneof(1,2)\""), S("valid:\"oneof(1,2),between(0,2.5)\""),
      S("valid:\"noneof(3),oneof(1,2),between(1,3)\""), S("valid:\"noneof(3),oneof(1,2)\"") }

PmodsTokens ==
    { S("pmods:\"usfu\""), S("pmods:\"usfu,replace\""), S("pmods:\"replace,usfu\""),
      S("pmods:\"default(5),replace\""), S("pmods:\"usfu,default(1.5)\""),
      S("pmods:\"default(abc)\""), S("pmods:\"default(true),usfu,replace\""),
      S("pmods:\"default,usfu(1),usfu,other\"") }

\* The types of the leaf fields.
LeafNames ==
    { "types.Bool", "types.Float64", "float64", "types.Int64", "int64", "int",
      "types.Number", "types.String", "string", "map[string]string",
      "[]types.String", "[]string", "[]int", "[]bool", "[]float64", "[]types.Number" }

LeafTags ==
    {TagOf(<<r, o, c, v>>) :
        r \in ReqTokens, o \in OptTokens, c \in CompTokens,
        v \in {<<>>, S("valid:\"between(1,3)\"")}}
    \cup {TagOf(<<k, v>>) : k \in CollTokens, v \in ValidTokens}
    \cup {TagOf(<<r, p>>) : r \in ReqTokens, p \in PmodsTokens}
    \cup {S("collection:\"bag\""), S("collection:\"Set\"")}

BlockTags ==
    {TagOf(<<r, o, k, v>>) :
        r \in ReqTokens, o \in OptTokens, k \in CollTokens, v \in ValidTokens}
    \cup {TagOf(<<r, p>>) : r \in {<<>>}, p \in PmodsTokens}

\* The tags of the innermost record field under one or more outer ones.
InnerTags ==
    {TagOf(<<r, o, k, v>>) :
        r \in {<<>>, S("required:\"true\"")}, o \in OptTokens,
        k \in {<<>>, S("collection:\"set\"")}, v \in {<<>>, S("valid:\"between(1,3)\"")}}

OuterTags == {<<>>, S("required:\"true\" collection:\"set\"")}

NameField == Field(S("Name"), Named("types.String"), S("tfsdk:\"name\" required:\"true\""))

\* A record or a sequence of records with the given fields.
Shapes(fields) == {Struct(fields), SliceOf(Struct(fields))}

\* The record fields that nest d levels of blocks: the innermost takes the
\* given tags, the ones around it an outer tag.
RECURSIVE BlockFields(_, _)
BlockFields(d, tags) ==
    IF d = 1
    THEN {Field(S("Endpoint"), sh, tg) : sh \in Shapes(<<NameField>>), tg \in tags}
    ELSE UNION {{Field(S("VPCConfig"), sh, tg) : sh \in Shapes(<<inner>>),
                                                 tg \in OuterTags} :
                   inner \in BlockFields(d - 1, tags)}

LeafFields == {Field(S("MinimumSize"), Named(n), tg) : n \in LeafNames, tg \in LeafTags}

\* Types rAttribute has no case for: a map with a key that is not a string,
\* a pointer, a channel, and sequences of sequences, of maps and of pointers.
UnsupportedTypes ==
    { Named("map[int]string"), Named("*string"), Named("chan int"),
      SliceOf(Named("[]string")), SliceOf(Named("map[string]string")),
      SliceOf(Named("*string")) }

BadFields ==
    {Field(S("Lookup"), t, tg) : t \in UnsupportedTypes, tg \in {<<>>, S("optional:\"true\"")}}

\* An unexported field of an unsupported type.
HiddenField == Field(S("lookup"), Named("chan int"), <<>>)

\* The record with the given fields, d record or sequence-of-records fields
\* around it.
RECURSIVE Around(_, _)
Around(d, fields) ==
    IF d = 0 THEN {Struct(fields)}
    ELSE UNION {{Struct(<<Field(S("Endpoint"), sh, <<>>)>>) : sh \in {in, SliceOf(in)}} :
                   in \in Around(d - 1, fields)}

\* Values that are not records.
NonRecords ==
    { Named("string"), Named("[]string"), Named("map[string]string"), Named("*string"),
      SliceOf(Struct(<<NameField>>)) }

BadModels ==
    UNION {Around(d, fs) :
              d \in 0..(MaxDepth - 1),
              fs \in UNION {{<<b>>, <<NameField, b>>, <<b, NameField>>} : b \in BadFields}
                        \cup {<<NameField, HiddenField>>}}
    \cup NonRecords

\* The tags of the unnamed marker field: markdown description, version
\* (unquoted, quoted, not a number), description and deprecation.
MarkerTags ==
    {TagOf(<<m, v, d, p>>) :
        m \in {<<>>, S("md:\"About it\"")},
        v \in {<<>>, S("version:1"), S("version:\"2\""), S("version:\"x\"")},
        d \in {<<>>, S("desc:\"Speaking\"")},
        p \in {<<>>, S("deprecation:\"Going\"")}}

\* _ struct{} with the given tags.
Marker(tags) == Field(S("_"), Struct(<<>>), tags)

DescribedField ==
    Field(S("Name"), Named("types.String"), S("tfsdk:\"name\" desc:\"Of the field\""))

\* Records with a marker at the root (first or not), with none, with a _
\* field that is not a record, and with a marker inside a nested record.
MarkerModels ==
    UNION {{Struct(<<Marker(tg), DescribedField>>), Struct(<<DescribedField, Marker(tg)>>)} :
              tg \in MarkerTags}
    \cup {Struct(<<DescribedField>>),
          Struct(<<Field(S("_"), Named("string"), S("desc:\"Speaking\"")), DescribedField>>)}
    \cup UNION {{Struct(root \o <<Field(S("Endpoint"), sh, tg)>>) :
                    sh \in Shapes(<<Marker(S("desc:\"Inner\" version:\"7\"")), NameField>>),
                    tg \in {<<>>, S("desc:\"Block text\"")}} :
                 root \in {<<>>, <<Marker(S("desc:\"Speaking\" version:1"))>>}}

\* Records with a leaf field and a record field whose wire names are the
\* same, by normalisation (APIName, ApiName) or by the snake tag, at the root
\* and inside a block.
SameNameFields ==
    UNION {{<<Field(S("APIName"), Named("string"), <<>>), Field(S("ApiName"), sh, <<>>)>>,
            <<Field(S("Endpoint"), sh, S("snake:\"target\"")),
              Field(S("Target"), Named("types.String"), <<>>)>>} :
              sh \in Shapes(<<NameField>>)}

SameNameModels == UNION {Around(d, fs) : d \in 0..(MaxDepth - 1), fs \in SameNameFields}

Models ==
    {Struct(<<f>>) : f \in LeafFields}
    \cup {Struct(<<f>>) : f \in BlockFields(1, BlockTags)}
    \cup UNION {{Struct(<<f>>) : f \in BlockFields(d, InnerTags)} : d \in 2..MaxDepth}
    \cup BadModels
    \cup MarkerModels
    \cup SameNameModels

Init ==
    /\ pc = "idle"
    /\ fn = "New"
    /\ mdl \in Models
    /\ ret = <<>>
    /\ apm = <<>> /\ req = <<>> /\ res = <<>>
    /\ terms = <<>>
    /\ str = <<>>
    /\ parts = <<>>

CallNew ==
    /\ pc = "idle" /\ fn = "New"
    /\ ret' = New(mdl)
    /\ pc' = "done"
    /\ UNCHANGED <<fn, mdl, terms, str, parts, apm, req, res>>

Next == CallNew

Spec == Init /\ [][Next]_vars

-----------------------------------------------------------------------------
\* The plan modifier: Modify called on a request, and called again by the
\* next run of the modifier sequence.

MaxValue == 2

AttrValues == {Null, Unknown} \cup {Known(v) : v \in 1..MaxValue}

\* The response starts with the plan of the request.
ModInit ==
    /\ pc = "idle"
    /\ fn = "Modify"
    /\ apm \in [DefaultValue : AttrValues]
    /\ req \in [AttributeConfig : AttrValues, AttributePlan : AttrValues]
    /\ res = [AttributePlan |-> req.AttributePlan]
    /\ terms = <<>> /\ str = <<>> /\ parts = <<>> /\ mdl = <<>> /\ ret = <<>>

CallModify ==
    /\ pc \in {"idle", "next"} /\ fn = "Modify"
    /\ res' = Modify(apm, req, res)
    /\ pc' = IF pc = "idle" THEN "done" ELSE "twice"
    /\ UNCHANGED <<fn, terms, str, parts, mdl, ret, apm, req>>

\* The caller applies the modifier again: with the request as it was, or
\* with the plan the response now holds.
NextModifier ==
    /\ pc = "done" /\ fn = "Modify"
    /\ \E chained \in BOOLEAN :
           req' = IF chained THEN [req EXCEPT !.AttributePlan = res.AttributePlan] ELSE req
    /\ pc' = "next"
    /\ UNCHANGED <<fn, terms, str, parts, mdl, ret, apm, res>>

ModNext == CallModify \/ NextModifier

ModSpec == ModInit /\ [][ModNext]_vars

-----------------------------------------------------------------------------
(* What New built from which field *)

IsLeafField(f) == IsExported(f) /\ leaf(f.Type.String, f.Tag) # <<>>

IsBlockField(f) ==
    /\ IsExported(f)
    /\ leaf(f.Type.String, f.Tag) = <<>>
    /\ \/ f.Type.Kind = "struct"
       \/ f.Type.Kind = "slice" /\ f.Type.Elem.Kind = "struct"

\* The record a block field nests: the field's type, or its element type.
RecordOf(f) == IF f.Type.Kind = "slice" THEN f.Type.Elem ELSE f.Type

\* Every block of node (a schema or a block built from the record t) with
\* the field it was built from: the field's tags, whether the field is a
\* sequence of records, the nesting depth, and whether the record holding
\* the field is itself the element of a sequence of records.
RECURSIVE BlockFacts(_, _, _, _)
BlockFacts(t, node, depth, inSlice) ==
    UNION { LET f == t.Fields[i]
                b == node.Blocks[snakeCase(f.Name, f.Tag)]
            IN  { [ tags |-> f.Tag, fromSlice |-> f.Type.Kind = "slice", block |-> b,
                    depth |-> depth, inSlice |-> inSlice ] }
                \cup BlockFacts(RecordOf(f), b, depth + 1, f.Type.Kind = "slice")
          : i \in {j \in 1..Len(t.Fields) : IsBlockField(t.Fields[j])} }

\* Every attribute under node with the leaf field it was built from.
RECURSIVE AttrFacts(_, _)
AttrFacts(t, node) ==
    { [ name |-> t.Fields[i].Type.String, tags |-> t.Fields[i].Tag,
        attr |-> node.Attributes[snakeCase(t.Fields[i].Name, t.Fields[i].Tag)] ]
      : i \in {j \in 1..Len(t.Fields) : IsLeafField(t.Fields[j])} }
    \cup UNION { AttrFacts(RecordOf(t.Fields[i]),
                           node.Blocks[snakeCase(t.Fields[i].Name, t.Fields[i].Tag)])
                : i \in {j \in 1..Len(t.Fields) : IsBlockField(t.Fields[j])} }

Returned == pc = "done" /\ fn = "New" /\ ~ret.err

BuiltBlocks == IF Returned THEN BlockFacts(mdl, ret.val, 1, FALSE) ELSE {}

BuiltAttrs == IF Returned THEN AttrFacts(mdl, ret.val) ELSE {}

\* How a claim reads a field's tags.
ValidOf(tags) == tagValue(TagValidators, tags)

HasBetween(tags) == hasTagArg(TagValidatorBetween, ValidOf(tags))

IsRequired(tags) == tagValue(TagRequired, tags) = TagTrue

IsSet(tags) == tagValue(TagCollection, tags) = TagCollectionSet

Family(tags) == IF IsSet(tags) THEN "setvalidator" ELSE "listvalidator"

SizeValidators(vs) == SelectSeq(vs, LAMBDA v : v.fn \in {"SizeBetween", "SizeAtLeast"})

RangeValidators(vs) ==
    SelectSeq(vs, LAMBDA v : v.fn \in {"SizeBetween", "LengthBetween", "Between"})

-----------------------------------------------------------------------------
(* Claims *)

\* C1: a block built from a record field that is not a sequence of records
\* and whose valid tag has no between term carries exactly one size
\* validator, SizeBetween(min, 1), with min = 1 if required:"true" and 0
\* otherwise, of the Set family if collection:"set" and of the List family
\* otherwise, at every nesting depth.
C1_SingleBlockSize ==
    \A b \in BuiltBlocks :
        ~b.fromSlice /\ ~HasBetween(b.tags)
        => SizeValidators(b.block.Validators)
               = <<SizeBetween(Family(b.tags), IF IsRequired(b.tags) THEN 1 ELSE 0, 1)>>

\* A required set-shaped record nested in the element record of a sequence
\* of records got SizeBetween(1, 1) while its optional tag was set.
C1_Witness ==
    \E b \in BuiltBlocks :
        /\ ~b.fromSlice /\ b.inSlice /\ b.depth = 2
        /\ IsRequired(b.tags) /\ IsSet(b.tags) /\ tagValue(TagOptional, b.tags) = TagTrue
        /\ ~HasBetween(b.tags)
        /\ b.block.Validators = <<SizeBetween("setvalidator", 1, 1)>>

\* C2: a block built from a sequence-of-records field whose valid tag has no
\* between term carries, if required:"true", exactly SizeAtLeast(1) of the
\* family of its nesting mode (Set for collection:"set", List otherwise), and
\* no validator at all if not required.
C2_SliceBlockSize ==
    \A b \in BuiltBlocks :
        b.fromSlice /\ ~HasBetween(b.tags)
        => /\ b.block.NestingMode
                = IF IsSet(b.tags) THEN "BlockNestingModeSet" ELSE "BlockNestingModeList"
           /\ b.block.Validators
                = IF IsRequired(b.tags) THEN <<SizeAtLeast(Family(b.tags), 1)>> ELSE <<>>

\* A required sequence of records with collection:"set" got the Set nesting
\* mode and setvalidator.SizeAtLeast(1).
C2_Witness ==
    \E b \in BuiltBlocks :
        /\ b.fromSlice /\ IsRequired(b.tags) /\ IsSet(b.tags) /\ ~HasBetween(b.tags)
        /\ b.block.NestingMode = "BlockNestingModeSet"
        /\ b.block.Validators = <<SizeAtLeast("setvalidator", 1)>>

\* The two arguments of the between term of a field's valid tag, parsed.
BetweenArgs(tags) == Split(tagArgs(TagValidatorBetween, ValidOf(tags)), S(","))

HasNumericBetween(tags) ==
    /\ HasBetween(tags)
    /\ Len(BetweenArgs(tags)) = 2
    /\ \A i \in 1..2 : ~ParseFloat(BetweenArgs(tags)[i]).err

BetweenMin(tags) == ParseFloat(BetweenArgs(tags)[1]).val

BetweenMax(tags) == ParseFloat(BetweenArgs(tags)[2]).val

\* The range validator a target of the given type is to get from
\* between(min,max): sizes, lengths and 64-bit integers hold the integer
\* part of the bound, floats the bound itself.
RangeFor(name, tags) ==
    IF name \in SliceNames \/ name = SpecialTypeBlock
    THEN <<SizeBetween(Family(tags), Trunc(BetweenMin(tags)), Trunc(BetweenMax(tags)))>>
    ELSE IF name \in StringNames
    THEN <<[pkg |-> "stringvalidator", fn |-> "LengthBetween",
            min |-> Trunc(BetweenMin(tags)), max |-> Trunc(BetweenMax(tags))]>>
    ELSE IF name \in Int64Names
    THEN <<[pkg |-> "int64validator", fn |-> "Between",
            min |-> Trunc(BetweenMin(tags)), max |-> Trunc(BetweenMax(tags))]>>
    ELSE <<[pkg |-> "float64validator", fn |-> "Between",
            min |-> BetweenMin(tags), max |-> BetweenMax(tags)]>>

BetweenTargets == SliceNames \cup StringNames \cup Int64Names \cup Float64Names \cup NumberNames

\* C3: between(min,max) with two numeric arguments yields exactly one range
\* validator carrying min and max, whose kind depends only on the target: a
\* size range for sequence-of-scalar attributes and blocks (Set family for
\* collection:"set", List otherwise), a length range for strings, a numeric
\* range for integers, floats and numbers; required, optional and computed
\* play no part.
C3_BetweenByTarget ==
    /\ \A a \in BuiltAttrs :
           a.name \in BetweenTargets /\ HasNumericBetween(a.tags)
           => RangeValidators(a.attr.Validators) = RangeFor(a.name, a.tags)
    /\ \A b \in BuiltBlocks :
           HasNumericBetween(b.tags)
           => RangeValidators(b.block.Validators) = RangeFor(SpecialTypeBlock, b.tags)

\* A required, optional and computed sequence of strings with
\* collection... absent got listvalidator.SizeBetween(1, 3) from between(1,3).
C3_Witness ==
    \E a \in BuiltAttrs :
        /\ a.name = "[]string"
        /\ IsRequired(a.tags) /\ a.attr.Optional /\ a.attr.Computed
        /\ ValidOf(a.tags) = S("between(1,3)")
        /\ a.attr.Validators = <<SizeBetween("listvalidator", 1, 3)>>

\* C4: the implicit size rule is engaged exactly for a block without a
\* between term: a block with between(min,max) carries the explicit
\* SizeBetween(min,max) and no other size validator, whatever its required
\* tag and whether or not it is a sequence of records; a leaf attribute
\* carries no size validator but the explicit one of its own between term.
C4_ImplicitOnlyWithoutBetween ==
    /\ \A b \in BuiltBlocks :
           HasNumericBetween(b.tags)
           => SizeValidators(b.block.Validators) = RangeFor(SpecialTypeBlock, b.tags)
    /\ \A a \in BuiltAttrs :
           SizeValidators(a.attr.Validators)
               = IF HasNumericBetween(a.tags) /\ a.name \in SliceNames
                 THEN RangeFor(a.name, a.tags) ELSE <<>>

\* A required sequence of records with between(1,3) carries SizeBetween(1,3)
\* alone, and a required sequence of strings without between carries nothing.
C4_Witness ==
    /\ \E b \in BuiltBlocks :
           /\ b.fromSlice /\ IsRequired(b.tags) /\ ~IsSet(b.tags)
           /\ ValidOf(b.tags) = S("between(1,3)")
           /\ b.block.Validators = <<SizeBetween("listvalidator", 1, 3)>>

\* How a claim reads the pmods tag of a field: its terms, and the modifier
\* each recognised term stands for ("" for a term that is not recognised).  A
\* term is recognised by its name, bare or with a parenthesised argument.
PmodsTerms(tags) == splitTagValues(tagValue(TagPlanModifiers, tags))

IsTerm(term, name) == term = name \/ HasPrefix(term, name \o S("("))

KindOfTerm(term) ==
    IF IsTerm(term, TagPlanModifierReplace) THEN "RequiresReplace"
    ELSE IF IsTerm(term, TagPlanModifierUSFU) THEN "UseStateForUnknown"
    ELSE IF IsTerm(term, TagPlanModifierDefault) THEN "DefaultValue"
    ELSE ""

TermKinds(tags) == {KindOfTerm(PmodsTerms(tags)[i]) : i \in 1..Len(PmodsTerms(tags))}

Kinds(pms) == [i \in 1..Len(pms) |-> pms[i].m]

Position(kind, pms) == Min({i \in 1..Len(pms) : pms[i].m = kind})

\* C5: the plan modifiers of an attribute follow the order of the recognised
\* terms of its pmods tag: if term a stands before term b in the tag, the
\* modifier of a stands before the modifier of b.
C5_OrderMirrorsTag ==
    \A a \in BuiltAttrs :
        \A i, j \in 1..Len(PmodsTerms(a.tags)) :
            LET ki == KindOfTerm(PmodsTerms(a.tags)[i])
                kj == KindOfTerm(PmodsTerms(a.tags)[j])
                present == {a.attr.PlanModifiers[n].m : n \in 1..Len(a.attr.PlanModifiers)}
            IN  i < j /\ ki # kj /\ ki \in present /\ kj \in present
                => Position(ki, a.attr.PlanModifiers) < Position(kj, a.attr.PlanModifiers)

\* The modifiers of a pmods tag on a target of the given type, in the fixed
\* order RequiresReplace, UseStateForUnknown, DefaultValue; DefaultValue only
\* on a scalar target.
FixedOrder(name, tags) ==
    SelectSeq(<<"RequiresReplace", "UseStateForUnknown", "DefaultValue">>,
              LAMBDA k : /\ k \in TermKinds(tags)
                         /\ k = "DefaultValue" => name \in ScalarNames)

\* C5 as amended: the plan modifiers stand in the fixed order
\* RequiresReplace, UseStateForUnknown, DefaultValue, one of each kind that
\* has a term in the pmods tag (DefaultValue on scalar targets only),
\* whatever the order of the terms in the tag.
C5_FixedOrder ==
    /\ \A a \in BuiltAttrs : Kinds(a.attr.PlanModifiers) = FixedOrder(a.name, a.tags)
    /\ \A b \in BuiltBlocks :
           Kinds(b.block.PlanModifiers) = FixedOrder(SpecialTypeBlock, b.tags)

\* A string attribute tagged pmods:"default(true),usfu,replace" got
\* RequiresReplace, UseStateForUnknown and DefaultValue("true"), in this order.
C5_Witness ==
    \E a \in BuiltAttrs :
        /\ PmodsTerms(a.tags) = <<S("default(true)"), S("usfu"), S("replace")>>
        /\ a.attr.PlanModifiers
             = <<[m |-> "RequiresReplace"], [m |-> "UseStateForUnknown"],
                 DefaultValue("types.String", S("true"))>>

\* The top-level leaf fields of the model whose schema value type is the
\* 64-bit integer type and whose pmods tag has a default term.
IntegerDefaults ==
    { i \in 1..Len(mdl.Fields) :
        /\ IsLeafField(mdl.Fields[i])
        /\ leaf(mdl.Fields[i].Type.String, mdl.Fields[i].Tag)[1].Type
             = ScalarType("types.Int64Type")
        /\ hasTagArg(TagPlanModifierDefault,
                     tagValue(TagPlanModifiers, mdl.Fields[i].Tag)) }

DefaultLiteral(f) == tagArgs(TagPlanModifierDefault, tagValue(TagPlanModifiers, f.Tag))

\* C6: on a leaf field whose schema value type is the 64-bit integer type,
\* default(L) yields a DefaultValue holding the integer L when L is a base-10
\* integer literal, and New aborts when it is not.
C6_IntegerDefault ==
    pc = "done" /\ fn = "New" /\ mdl.Kind = "struct"
    => \A i \in IntegerDefaults :
          LET f == mdl.Fields[i]
              n == ParseInt(DefaultLiteral(f))
          IN  IF n.err THEN ret.err
              ELSE /\ ~ret.err
                   /\ \E k \in 1..Len(ret.val.Attributes[snakeCase(f.Name, f.Tag)].PlanModifiers) :
                          ret.val.Attributes[snakeCase(f.Name, f.Tag)].PlanModifiers[k]
                              = DefaultValue("types.Int64", n.val)

\* A tag key:"..." stands in the tag string, read without the splitter.
Present(key, tags) ==
    \E i \in 1..Len(tags) :
        OccursAt(tags, key \o S(":\""), i) /\ (i = 1 \/ tags[i - 1] = " ")

NoneOfThree(tags) ==
    ~Present(TagComputed, tags) /\ ~Present(TagOptional, tags) /\ ~Present(TagRequired, tags)

\* C7: required, optional and computed of a leaf attribute are each true
\* exactly when the tag of that name is "true", but that optional is true as
\* well when none of the three tags is present; with one of the three
\* present, whatever its value, optional is not set by defaulting.
C7_FlagsAndDefault ==
    \A a \in BuiltAttrs :
        /\ a.attr.Required = (tagValue(TagRequired, a.tags) = TagTrue)
        /\ a.attr.Computed = (tagValue(TagComputed, a.tags) = TagTrue)
        /\ a.attr.Optional = (tagValue(TagOptional, a.tags) = TagTrue \/ NoneOfThree(a.tags))

\* An attribute without any of the three tags came out optional only, and
\* one tagged required:"false" alone came out with none of the three flags.
C7_Witness ==
    /\ \E a \in BuiltAttrs :
           /\ NoneOfThree(a.tags) /\ a.tags # <<>>
           /\ a.attr.Optional /\ ~a.attr.Required /\ ~a.attr.Computed

\* C8: splitTagValues splits a value at its top-level commas only: a value
\* that is terms joined by commas, each a bare name or name(args) with
\* commas but no parentheses in args, comes back as exactly those terms, in
\* their order.
C8_TopLevelCommas == pc = "done" /\ fn = "splitTagValues" => parts = terms

\* The five-term value of the test came back as its five terms.
C8_Witness ==
    /\ pc = "done" /\ fn = "splitTagValues"
    /\ terms \in TestTerms
    /\ Len(parts) = 5 /\ parts[5] = S("arbitrary(5,2,3,1)")

\* C9: splitTags splits a tag string at exactly the spaces outside the
\* quoted values: tokens key:"value" joined by single spaces, with any
\* spaces inside the values, come back one element a token, each token
\* unchanged.
C9_SpacesOutsideQuotes == pc = "done" /\ fn = "splitTags" => parts = terms

\* The tags of the model's top-level fields, the spaced between( 1, 3 )
\* written as between(1,3).
Despaced(m) ==
    [m EXCEPT !.Fields =
        [i \in 1..Len(m.Fields) |->
            [m.Fields[i] EXCEPT !.Tag = Replace(m.Fields[i].Tag, S("between( 1, 3 )"),
                                                S("between(1,3)"))]]]

AcceptsBetween(f) ==
    \/ IsLeafField(f) /\ f.Type.String \in BetweenTargets
    \/ IsBlockField(f)

\* C10: on every field of a type that accepts between, between( 1, 3 )
\* compiles without aborting and yields what between(1,3) yields.
C10_SpacedBetween ==
    pc = "done" /\ fn = "New" /\ mdl.Kind = "struct"
    => \A i \in 1..Len(mdl.Fields) :
          /\ AcceptsBetween(mdl.Fields[i])
          /\ tagArgs(TagValidatorBetween, ValidOf(mdl.Fields[i].Tag)) = S(" 1, 3 ")
          => ~ret.err /\ ret = New(Despaced(mdl))

\* The words of an identifier, lower-cased.
LowerWords(ws) == [i \in 1..Len(ws) |-> ToLower(ws[i])]

\* C11: without a snake tag, snakeCase maps an identifier that is a
\* concatenation of capitalized words and acronyms (no two acronyms side by
\* side, a trailing IDs being the word ids) to its words, lower-cased and
\* joined by single underscores.
C11_WordsJoined ==
    pc = "done" /\ fn = "snakeCase" => ret = Join(LowerWords(terms), S("_"))

\* A token read character by character: the places of its colons, its key
\* (the text before the first colon) and its value (the text after the first
\* colon, one double quote taken off each end).
Colons(tok) == {i \in 1..Len(tok) : tok[i] = ":"}

KeyOfToken(tok) == IF Colons(tok) = {} THEN tok ELSE SubSeq(tok, 1, Min(Colons(tok)) - 1)

Unquoted(v) ==
    SubSeq(v, IF v # <<>> /\ v[1] = "\"" THEN 2 ELSE 1,
              IF Len(v) >= 2 /\ v[Len(v)] = "\"" THEN Len(v) - 1 ELSE Len(v))

ValueOfToken(tok) ==
    IF Colons(tok) = {} THEN <<>> ELSE Unquoted(SubSeq(tok, Min(Colons(tok)) + 1, Len(tok)))

\* C12: tagValue(key, allTags) is the value of the (first) token whose key,
\* the text before its first colon, is key, and the empty string when no
\* token has that key; a present tag with a non-empty value never gives the
\* empty string.
C12_ValueOfKey ==
    pc = "done" /\ fn = "tagValue"
    => LET with == {i \in 1..Len(terms) : KeyOfToken(terms[i]) = ret.key}
       IN  ret.val = IF with = {} THEN <<>> ELSE ValueOfToken(terms[Min(with)])

\* The elements of splitTags(str) that have exactly one colon and the key
\* before it.
WellFormed(key, toks) ==
    {i \in 1..Len(toks) : Cardinality(Colons(toks[i])) = 1 /\ KeyOfToken(toks[i]) = key}

FirstWellFormed(key, toks) ==
    IF WellFormed(key, toks) = {} THEN <<>>
    ELSE ValueOfToken(toks[Min(WellFormed(key, toks))])

\* C12 as amended: tagValue(key, allTags) is the value of the first element
\* of splitTags(allTags) that has exactly one colon and key before it, and
\* the empty string when there is none: an element with another number of
\* colons is skipped, whatever its key and value.
C12_FirstWellFormed ==
    pc = "done" /\ fn = "tagValue" => ret.val = FirstWellFormed(ret.key, splitTags(str))

\* desc:"Note: x" was skipped for its second colon, and the desc:"plain"
\* after it gave the value.
C12_Witness ==
    /\ pc = "done" /\ fn = "tagValue"
    /\ terms = <<S("desc:\"Note: x\""), S("desc:\"plain\"")>>
    /\ ret = [key |-> TagDescription, val |-> S("plain")]

\* The wire names of the fields of the record t that pass the test.
WireNames(t, Test(_)) ==
    {snakeCase(t.Fields[i].Name, t.Fields[i].Tag) :
        i \in {j \in 1..Len(t.Fields) : Test(t.Fields[j])}}

\* node (the schema or block built from the record t) holds, for each of
\* t's record and sequence-of-records fields, a block under the field's wire
\* name whose attributes and blocks are named after the fields of the nested
\* record itself, and so on below it.
RECURSIVE Direct(_, _)
Direct(t, node) ==
    \A i \in {j \in 1..Len(t.Fields) : IsBlockField(t.Fields[j])} :
        LET f == t.Fields[i]
            s == snakeCase(f.Name, f.Tag)
        IN  /\ s \in DOMAIN node.Blocks
            /\ DOMAIN node.Blocks[s].Attributes = WireNames(RecordOf(f), IsLeafField)
            /\ DOMAIN node.Blocks[s].Blocks = WireNames(RecordOf(f), IsBlockField)
            /\ Direct(RecordOf(f), node.Blocks[s])

\* C13: a sequence-of-records field gives one block under its wire name,
\* holding the attributes and blocks of the element record with no level in
\* between; and a record field inside the element record is sized as a single
\* record (SizeBetween(min, 1)), a sequence-of-records field inside it as a
\* sequence (no SizeBetween), whatever the field around them is.
C13_ElementBlock ==
    Returned
    => /\ DOMAIN ret.val.Blocks = WireNames(mdl, IsBlockField)
       /\ Direct(mdl, ret.val)
       /\ \A b \in BuiltBlocks :
              b.inSlice /\ ~HasBetween(b.tags)
              => IF b.fromSlice
                 THEN \A i \in 1..Len(b.block.Validators) :
                          b.block.Validators[i].fn # "SizeBetween"
                 ELSE b.block.Validators
                          = <<SizeBetween(Family(b.tags), IF IsRequired(b.tags) THEN 1 ELSE 0, 1)>>

\* A sequence of records whose element record holds a plain record field:
\* the outer block holds the inner one directly, the inner one holds name,
\* and the inner one got SizeBetween(0, 1).
C13_Witness ==
    /\ Returned
    /\ mdl.Fields[1].Type.Kind = "slice"
    /\ mdl.Fields[1].Type.Elem.Fields[1].Type.Kind = "struct"
    /\ mdl.Fields[1].Type.Elem.Fields[1].Tag = <<>>
    /\ DOMAIN ret.val.Blocks = {S("vpc_config")}
    /\ DOMAIN ret.val.Blocks[S("vpc_config")].Blocks = {S("endpoint")}
    /\ DOMAIN ret.val.Blocks[S("vpc_config")].Blocks[S("endpoint")].Attributes = {S("name")}
    /\ ret.val.Blocks[S("vpc_config")].Blocks[S("endpoint")].Validators
           = <<SizeBetween("listvalidator", 0, 1)>>

\* A type that is neither a supported leaf, nor a record, nor a sequence of
\* records.
Unsupported(t) ==
    /\ leaf(t.String, <<>>) = <<>>
    /\ t.Kind # "struct"
    /\ ~(t.Kind = "slice" /\ t.Elem.Kind = "struct")

\* The record t has, at some depth, an exported field of an unsupported type.
RECURSIVE HasUnsupported(_)
HasUnsupported(t) ==
    \E i \in 1..Len(t.Fields) :
        /\ IsExported(t.Fields[i])
        /\ \/ Unsupported(t.Fields[i].Type)
           \/ IsBlockField(t.Fields[i]) /\ HasUnsupported(RecordOf(t.Fields[i]))

\* C14: New panics, and returns no schema, when its argument is not a record
\* or when some exported field, at any depth, has a type that is neither a
\* supported leaf, nor a record, nor a sequence of records.
C14_UnsupportedAborts ==
    pc = "done" /\ fn = "New" /\ (mdl.Kind # "struct" \/ HasUnsupported(mdl))
    => ret.err /\ DOMAIN ret = {"err", "msg"}

\* New panicked on a map with integer keys that sits, after a supported
\* field, in the element record of a sequence of records.
C14_Witness ==
    /\ pc = "done" /\ fn = "New" /\ mdl.Kind = "struct"
    /\ Len(mdl.Fields) = 1
    /\ mdl.Fields[1].Type.Kind = "slice"
    /\ mdl.Fields[1].Type.Elem.Kind = "struct"
    /\ Len(mdl.Fields[1].Type.Elem.Fields) = 2
    /\ mdl.Fields[1].Type.Elem.Fields[2].Type.String = "map[int]string"
    /\ ret = Err("only maps with string keys are supported")

\* The place of a validator in the order of the rules: the range and size
\* validators of between and of the implicit size rule, then OneOf, then
\* NoneOf.
RuleRank(v) ==
    IF v.fn \in {"SizeBetween", "SizeAtLeast", "LengthBetween", "Between"} THEN 1
    ELSE IF v.fn = "OneOf" THEN 2
    ELSE IF v.fn = "NoneOf" THEN 3
    ELSE 0

\* vs holds at most one validator of each rule, in the order of the rules;
\* without a between term only a block has a validator of the first rule.
InRuleOrder(vs, tags, isBlock) ==
    /\ \A i \in 1..Len(vs) : RuleRank(vs[i]) > 0
    /\ \A i \in 1..(Len(vs) - 1) : RuleRank(vs[i]) < RuleRank(vs[i + 1])
    /\ \A i \in 1..Len(vs) :
           /\ RuleRank(vs[i]) = 1 /\ ~HasBetween(tags) => isBlock
           /\ vs[i].fn = "SizeAtLeast" => isBlock /\ ~HasBetween(tags)
           /\ vs[i].fn = "OneOf" => hasTagArg(TagValidatorOneOf, ValidOf(tags))
           /\ vs[i].fn = "NoneOf" => hasTagArg(TagValidatorNoneOf, ValidOf(tags))

\* C15: the validators of every attribute and block are in the order of the
\* rules, whatever the order of the terms in the valid tag: at most one
\* validator of between or (a block without between) of the implicit size
\* rule, then at most one of oneof, then at most one of noneof.
C15_RuleOrder ==
    /\ \A a \in BuiltAttrs : InRuleOrder(a.attr.Validators, a.tags, FALSE)
    /\ \A b \in BuiltBlocks : InRuleOrder(b.block.Validators, b.tags, TRUE)

\* A string attribute tagged valid:"noneof(3),oneof(1,2),between(1,3)" got
\* LengthBetween, OneOf and NoneOf in this order.
C15_Witness ==
    \E a \in BuiltAttrs :
        /\ a.name = "types.String"
        /\ ValidOf(a.tags) = S("noneof(3),oneof(1,2),between(1,3)")
        /\ a.attr.Validators
               = << [pkg |-> "stringvalidator", fn |-> "LengthBetween", min |-> 1, max |-> 3],
                    [pkg |-> "stringvalidator", fn |-> "OneOf", values |-> <<S("1"), S("2")>>],
                    [pkg |-> "stringvalidator", fn |-> "NoneOf", values |-> <<S("3")>>] >>

\* The framework type of the elements of a sequence of scalars.
SeqElement(name) ==
    IF name \in {"[]types.Bool", "[]bool"} THEN "types.BoolType"
    ELSE IF name \in {"[]types.Float64", "[]float", "[]float64"} THEN "types.Float64Type"
    ELSE IF name \in {"[]types.Int64", "[]int64", "[]int"} THEN "types.Int64Type"
    ELSE IF name = "[]types.Number" THEN "types.NumberType"
    ELSE "types.StringType"

\* C16: the attribute of a sequence-of-scalar field has a Set of the element
\* type as its type exactly when the collection tag is "set", and a List of
\* the element type otherwise (no tag, "list", any other value).
C16_SetOrList ==
    \A a \in BuiltAttrs :
        a.name \in SliceNames
        => a.attr.Type
              = [ T |-> IF tagValue(TagCollection, a.tags) = S("set")
                        THEN "types.SetType" ELSE "types.ListType",
                  ElemType |-> [T |-> SeqElement(a.name)] ]

\* A []bool field tagged collection:"Set", which is not the value "set",
\* became a List of Bool.
C16_Witness ==
    \E a \in BuiltAttrs :
        /\ a.name = "[]bool" /\ a.tags = S("collection:\"Set\"")
        /\ a.attr.Type = [T |-> "types.ListType", ElemType |-> [T |-> "types.BoolType"]]

\* The tags of the marker of the record t, its first unexported record field
\* named _; no tags when it has none.
MarkerOf(t) ==
    LET marks == {i \in 1..Len(t.Fields) :
                     /\ t.Fields[i].Name = S("_")
                     /\ t.Fields[i].Type.Kind = "struct"}
    IN  IF marks = {} THEN <<>> ELSE t.Fields[Min(marks)].Tag

\* C17: the description, markdown description, version and deprecation
\* message of the schema are the desc, md, version and deprecation tags of the
\* root's marker field, zero when there is no marker or no such tag; the
\* marker gives no attribute and no block; a block's description is that of
\* its own field's tags, whatever _ field its record holds.
C17_RootMetadata ==
    Returned
    => /\ ret.val.Description = tagValue(TagDescription, MarkerOf(mdl))
       /\ ret.val.MarkdownDescription = tagValue(TagMarkdownDescription, MarkerOf(mdl))
       /\ ret.val.DeprecationMessage = tagValue(TagDeprecationMessage, MarkerOf(mdl))
       /\ ret.val.Version = IF tagValue(TagVersion, MarkerOf(mdl)) = <<>> THEN 0
                            ELSE ParseInt(tagValue(TagVersion, MarkerOf(mdl))).val
       /\ DOMAIN ret.val.Attributes = WireNames(mdl, IsLeafField)
       /\ S("_") \notin DOMAIN ret.val.Attributes \cup DOMAIN ret.val.Blocks
       /\ \A b \in BuiltBlocks :
              /\ b.block.Description = tagValue(TagDescription, b.tags)
              /\ S("_") \notin DOMAIN b.block.Attributes \cup DOMAIN b.block.Blocks

\* The root marker says desc:"Speaking" version:1 and the marker inside the
\* nested record desc:"Inner" version:"7": the schema got Speaking and 1, the
\* block its own field's Block text.
C17_Witness ==
    /\ Returned
    /\ Len(mdl.Fields) = 2
    /\ mdl.Fields[1] = Marker(S("desc:\"Speaking\" version:1"))
    /\ mdl.Fields[2].Type.Kind = "struct"
    /\ mdl.Fields[2].Type.Fields[1] = Marker(S("desc:\"Inner\" version:\"7\""))
    /\ ret.val.Description = S("Speaking")
    /\ ret.val.Version = 1
    /\ DOMAIN ret.val.Attributes = {}
    /\ ret.val.Blocks[S("endpoint")].Description = S("Block text")
    /\ DOMAIN ret.val.Blocks[S("endpoint")].Attributes = {S("name")}

\* No wire name is a key of both maps of node, nor of both maps of a block
\* below it.
RECURSIVE DisjointKeys(_)
DisjointKeys(node) ==
    /\ DOMAIN node.Attributes \cap DOMAIN node.Blocks = {}
    /\ \A s \in DOMAIN node.Blocks : DisjointKeys(node.Blocks[s])

\* C18: in every schema New returns, at the root and in every block, no wire
\* name is a key of both the attributes and the blocks.
C18_DisjointKeys == Returned => DisjointKeys(ret.val)

\* C20: Modify sets the planned value to the default exactly when the
\* configured value is null and the planned value is unknown or null, and
\* leaves it as it is otherwise; a second Modify changes nothing.
C20_DefaultWhenUnset ==
    [][fn = "Modify" /\ pc \in {"idle", "next"}
       => /\ res'.AttributePlan
                = IF /\ IsNull(req.AttributeConfig)
                     /\ IsUnknown(req.AttributePlan) \/ IsNull(req.AttributePlan)
                  THEN apm.DefaultValue ELSE res.AttributePlan
          /\ pc = "next" => res' = res]_vars

\* With a null configuration and an unknown plan, Modify applied twice left
\* the known default in the plan.
C20_Witness ==
    /\ fn = "Modify" /\ pc = "twice"
    /\ IsNull(req.AttributeConfig) /\ IsUnknown(req.AttributePlan)
    /\ apm.DefaultValue = Known(2)
    /\ res.AttributePlan = Known(2)

\* The sentinel stands somewhere in s.
HasSentinel(s) == \E i \in 1..Len(s) : OccursAt(s, Sentinel, i)

\* C21: for every input without the sentinel, the elements of
\* splitTagValues joined by "," and the elements of splitTags joined by " "
\* give the input back, and no element holds the sentinel.
C21_Lossless ==
    pc = "done" /\ fn \in {"splitTagValues", "splitTags"} /\ ~HasSentinel(str)
    => /\ Join(parts, IF fn = "splitTagValues" THEN S(",") ELSE S(" ")) = str
       /\ \A i \in 1..Len(parts) : ~HasSentinel(parts[i])

\* The number of separators in s.
Separators(s, sep) == Cardinality({i \in 1..Len(s) : s[i] = sep[1]})

\* The passes made and the separators left never exceed the separators of
\* the input plus one.
LoopBound ==
    pc \in {"loop", "split", "done"}
    => ret.iters + Separators(ret.result, SepOf(fn)) =< Separators(str, SepOf(fn)) + 1

\* C22: the loops of splitTagValues and splitTags end for every input: a
\* pass that changes the string takes at least one separator away, the loop
\* is left at the first pass that changes nothing, and so the passes, each
\* of them counted, are at most the separators of the input plus one.
C22_LoopTerminates ==
    /\ []LoopBound
    /\ [][pc = "loop"
          => /\ ret'.iters = ret.iters + 1
             /\ pc' = "loop" <=> ret'.result # ret.result
             /\ pc' = "loop"
                => Separators(ret'.result, SepOf(fn)) < Separators(ret.result, SepOf(fn))]_vars

\* arbitrary(5,2,3,1) took the replacement before the loop and three passes,
\* the last of which changed nothing.
C22_Witness ==
    /\ pc = "done" /\ fn = "splitTagValues"
    /\ str = S("arbitrary(5,2,3,1)")
    /\ ret.iters = 3
    /\ parts = <<str>>

\* Every size validator of vs is of the given family.
SizesOf(vs, pkg) ==
    \A i \in 1..Len(vs) : vs[i].fn \in {"SizeBetween", "SizeAtLeast"} => vs[i].pkg = pkg

\* C23: every size validator of a block, from between or implicit, is of the
\* family of the block's nesting mode, and every size validator of a
\* sequence-of-scalar attribute of the family of its List or Set type.
C23_FamilyMatches ==
    /\ \A b \in BuiltBlocks :
           SizesOf(b.block.Validators,
                   IF b.block.NestingMode = "BlockNestingModeSet"
                   THEN "setvalidator" ELSE "listvalidator")
    /\ \A a \in BuiltAttrs :
           a.name \in SliceNames
           => SizesOf(a.attr.Validators,
                      IF a.attr.Type.T = "types.SetType"
                      THEN "setvalidator" ELSE "listvalidator")

\* A Set-mode block got setvalidator.SizeBetween(1, 3) from its between
\* term.
C23_Witness ==
    \E b \in BuiltBlocks :
        /\ HasBetween(b.tags)
        /\ b.block.NestingMode = "BlockNestingModeSet"
        /\ b.block.Validators = <<SizeBetween("setvalidator", 1, 3)>>

====
